---- MODULE Spec2Model ----
(***************************************************************************)
(* Model of src/bucket-policy.py: the S3-triggered Lambda that converts an *)
(* uploaded .xlsx workbook to CSV, stores it under a year/month/day key,   *)
(* derives the authorised principals from the bucket's KMS key policy,     *)
(* attaches an allow/deny bucket policy and starts a Glue crawler.         *)
(*                                                                         *)
(* Python strings whose characters matter (object keys, file names, date   *)
(* tokens, ARNs) are sequences of one-character strings; None is "None".   *)
(***************************************************************************)
EXTENDS Integers, Sequences, FiniteSets, TLC

VARIABLES
    pc,                \* position of the invocation in lambda_handler
    source_key,        \* event['Records'][0]['s3']['object']['key']
    file_name, file_prefix, file_extension,
    year, month, day,  \* fields of date_obj (0 before they are assigned)
    excel_data,        \* the bytes fetched by get_object (a workbook)
    excel_df,          \* the DataFrame after the cleanup
    csv_data,          \* excel_df.to_csv(index=False)
    target_bucket, target_key,
    key_arn,           \* get_kms_master_key's result
    key_metadata,      \* get_key_policy's response
    aws_account_arns,  \* list(account_arns)
    calls,             \* the boto3 client calls made so far, in order
    s3_objects,        \* objects stored by put_object
    s3_policy,         \* bucket policies stored by put_bucket_policy
    crawler_started,   \* crawlers started by start_crawler
    result             \* what the invocation returned or raised

vars == <<pc, source_key, file_name, file_prefix, file_extension, year, month,
          day, excel_data, excel_df, csv_data, target_bucket, target_key,
          key_arn, key_metadata, aws_account_arns, calls, s3_objects,
          s3_policy, crawler_started, result>>

(***************************************************************************)
(* Bounds of the enumerated inputs.                                        *)
(***************************************************************************)
MaxRows == 3
MaxCols == 3
MaxStmts == 2
MaxArnList == 2

(***************************************************************************)
(* str methods                                                             *)
(***************************************************************************)
\* positions of the delimiter c in s
DelimPositions(s, c) == {i \in 1..Len(s) : s[i] = c}

\* position of the k-th delimiter; 0 before the first, Len(s)+1 after the last
DelimAt(s, c, k) ==
    LET P == DelimPositions(s, c)
    IN  IF k = 0 THEN 0
        ELSE IF k > Cardinality(P) THEN Len(s) + 1
        ELSE CHOOSE p \in P : Cardinality({q \in P : q < p}) = k - 1

\* s.split(c): the list of segments (always at least one)
Split(s, c) ==
    [k \in 1..(Cardinality(DelimPositions(s, c)) + 1) |->
        SubSeq(s, DelimAt(s, c, k - 1) + 1, DelimAt(s, c, k) - 1)]

LowerChar(ch) ==
    CASE ch = "X" -> "x"
      [] ch = "L" -> "l"
      [] ch = "S" -> "s"
      [] ch = "T" -> "t"
      [] ch = "R" -> "r"
      [] OTHER -> ch

\* a mutant of Lower: the comparison is made case-sensitive
LowerIdentity(s) == s

\* s.lower()
Lower(s) == [i \in 1..Len(s) |-> LowerChar(s[i])]

\* s.endswith(suffix)
EndsWith(s, suffix) ==
    /\ Len(s) >= Len(suffix)
    /\ SubSeq(s, Len(s) - Len(suffix) + 1, Len(s)) = suffix

\* sub in s, for strings
IsSubstr(sub, s) ==
    \E i \in 0..(Len(s) - Len(sub)) : SubSeq(s, i + 1, i + Len(sub)) = sub

Digits == {"0", "1", "2", "3", "4", "5", "6", "7", "8", "9"}

DigitVal(ch) ==
    CASE ch = "0" -> 0 [] ch = "1" -> 1 [] ch = "2" -> 2 [] ch = "3" -> 3
      [] ch = "4" -> 4 [] ch = "5" -> 5 [] ch = "6" -> 6 [] ch = "7" -> 7
      [] ch = "8" -> 8 [] ch = "9" -> 9

DigitChar(n) == CHOOSE ch \in Digits : DigitVal(ch) = n

RECURSIVE IntOf(_)
\* int(s) for a string of decimal digits
IntOf(s) ==
    IF Len(s) = 0 THEN 0
    ELSE 10 * IntOf(SubSeq(s, 1, Len(s) - 1)) + DigitVal(s[Len(s)])

RECURSIVE Str(_)
\* format(n, "d") for n >= 0
Str(n) == IF n < 10 THEN <<DigitChar(n)>>
          ELSE Str(n \div 10) \o <<DigitChar(n % 10)>>

\* format(n, "02d") for n >= 0
Pad2(n) == IF n < 10 THEN <<"0">> \o Str(n) ELSE Str(n)

(***************************************************************************)
(* datetime.strptime(date_str, "%Y%m%d")                                   *)
(*   %Y  (?P<Y>\d\d\d\d)                                                   *)
(*   %m  (?P<m>1[0-2]|0[1-9]|[1-9])                                        *)
(*   %d  (?P<d>3[0-1]|[1-2]\d|0[1-9]|[1-9]| [1-9])                         *)
(* The regular expression is matched at the start of the string with the   *)
(* alternatives tried in order; characters left over after the match, a    *)
(* year of 0 and a day beyond the month's length raise ValueError.         *)
(***************************************************************************)
At(s, i) == IF i >= 1 /\ i <= Len(s) THEN s[i] ELSE "$"

\* lengths of the alternatives of %m that match at position i, in order
MonthLens(s, i) ==
    LET a == At(s, i)
        b == At(s, i + 1)
        two == \/ (a = "1" /\ b \in {"0", "1", "2"})
               \/ (a = "0" /\ b \in Digits \ {"0"})
        one == a \in Digits \ {"0"}
    IN  (IF two THEN <<2>> ELSE <<>>) \o (IF one THEN <<1>> ELSE <<>>)

\* length of the first alternative of %d that matches at position i, 0 if none
DayLen(s, i) ==
    LET a == At(s, i)
        b == At(s, i + 1)
    IN  IF a = "3" /\ b \in {"0", "1"} THEN 2
        ELSE IF a \in {"1", "2"} /\ b \in Digits THEN 2
        ELSE IF a = "0" /\ b \in Digits \ {"0"} THEN 2
        ELSE IF a \in Digits \ {"0"} THEN 1
        ELSE IF a = " " /\ b \in Digits \ {"0"} THEN 2
        ELSE 0

IsLeap(y) == (y % 4 = 0) /\ ((y % 100 # 0) \/ (y % 400 = 0))

DaysInMonth(y, m) ==
    IF m = 2 THEN (IF IsLeap(y) THEN 29 ELSE 28)
    ELSE IF m \in {4, 6, 9, 11} THEN 30
    ELSE 31

NoDate == [ok |-> FALSE, year |-> 0, month |-> 0, day |-> 0]

Strptime(s) ==
    IF ~(Len(s) >= 4 /\ \A i \in 1..4 : s[i] \in Digits) THEN NoDate
    ELSE
      LET ms == MonthLens(s, 5)
          \* the first month alternative after which some day alternative matches
          fit == {k \in 1..Len(ms) : DayLen(s, 5 + ms[k]) > 0}
      IN  IF fit = {} THEN NoDate
          ELSE
            LET k  == CHOOSE k \in fit : \A j \in fit : k <= j
                ml == ms[k]
                dl == DayLen(s, 5 + ml)
                y  == IntOf(SubSeq(s, 1, 4))
                m  == IntOf(SubSeq(s, 5, 4 + ml))
                dd == SubSeq(s, 5 + ml, 4 + ml + dl)
                d  == IntOf(IF dd[1] = " " THEN Tail(dd) ELSE dd)
            IN  IF 4 + ml + dl # Len(s) THEN NoDate      \* unconverted data remains
                ELSE IF y = 0 THEN NoDate                \* year 0 is out of range
                ELSE IF d > DaysInMonth(y, m) THEN NoDate \* day is out of range for month
                ELSE [ok |-> TRUE, year |-> y, month |-> m, day |-> d]

(***************************************************************************)
(* The date token of a file name, lines 145-149:                           *)
(*   file_name.split('_')[1]  raises IndexError without a second segment,  *)
(*   datetime.strptime        raises ValueError on an unparsable token.    *)
(***************************************************************************)
\* a mutant of ParseDate: a missing or unparsable token falls back to a default date
ParseDateLenient(name) ==
    LET segs == Split(name, "_")
        d    == IF Len(segs) < 2 THEN NoDate ELSE Strptime(segs[2])
    IN  IF d.ok THEN [ok |-> TRUE, error |-> "None", year |-> d.year,
                      month |-> d.month, day |-> d.day]
        ELSE [ok |-> TRUE, error |-> "None", year |-> 1970, month |-> 1, day |-> 1]

ParseDate(name) ==
    LET segs == Split(name, "_")
    IN  IF Len(segs) < 2
        THEN [ok |-> FALSE, error |-> "IndexError", year |-> 0, month |-> 0, day |-> 0]
        ELSE LET d == Strptime(segs[2])
             IN  IF d.ok
                 THEN [ok |-> TRUE, error |-> "None", year |-> d.year,
                       month |-> d.month, day |-> d.day]
                 ELSE [ok |-> FALSE, error |-> "ValueError", year |-> 0,
                       month |-> 0, day |-> 0]

\* a mutant of TargetKey: the month and the day are not zero-padded
TargetKeyUnpadded(y, m, d, prefix) ==
    <<"y", "e", "a", "r", "=">> \o Str(y)
        \o <<"/", "m", "o", "n", "t", "h", "=">> \o Str(m)
        \o <<"/", "d", "a", "y", "=">> \o Str(d)
        \o <<"/">> \o prefix \o <<".", "c", "s", "v">>

\* f"year={year}/month={month:02d}/day={day:02d}/{file_prefix}.csv"
TargetKey(y, m, d, prefix) ==
    <<"y", "e", "a", "r", "=">> \o Str(y)
        \o <<"/", "m", "o", "n", "t", "h", "=">> \o Pad2(m)
        \o <<"/", "d", "a", "y", "=">> \o Pad2(d)
        \o <<"/">> \o prefix \o <<".", "c", "s", "v">>

(***************************************************************************)
(* pandas: a DataFrame read with header=None is a rectangular grid of      *)
(* cells, a missing cell being NaN.                                        *)
(***************************************************************************)
NaN == "NaN"

NCols(grid) == IF Len(grid) = 0 THEN 0 ELSE Len(grid[1])

\* the elements of a set of column positions, in increasing order
Ascending(S) ==
    [k \in 1..Cardinality(S) |->
        CHOOSE j \in S : Cardinality({i \in S : i < j}) = k - 1]

RowHasValue(row) == \E j \in 1..Len(row) : row[j] # NaN

\* df.dropna(how='all')
DropEmptyRows(grid) == SelectSeq(grid, RowHasValue)

\* df.dropna(axis=1, how='all')
DropEmptyCols(grid) ==
    LET keep == Ascending({j \in 1..NCols(grid) :
                             \E i \in 1..Len(grid) : grid[i][j] # NaN})
    IN  [i \in 1..Len(grid) |-> [k \in 1..Len(keep) |-> grid[i][keep[k]]]]

\* a mutant of Cleanup: the blank columns are not dropped
CleanupRowsOnly(grid) ==
    LET kept == DropEmptyRows(grid)
    IN  IF Len(kept) = 0
        THEN [ok |-> FALSE, columns |-> <<>>, values |-> <<>>]
        ELSE [ok |-> TRUE, columns |-> kept[1], values |-> Tail(kept)]

\* lines 158-160; excel_df.iloc[0] raises IndexError when no row is left
Cleanup(grid) ==
    LET kept == DropEmptyCols(DropEmptyRows(grid))
    IN  IF Len(kept) = 0
        THEN [ok |-> FALSE, columns |-> <<>>, values |-> <<>>]
        ELSE [ok |-> TRUE, columns |-> kept[1], values |-> Tail(kept)]

\* df.to_csv(index=False): the header line, then the rows; NaN is written empty
CsvField(cell) == IF cell = NaN THEN "" ELSE cell
CsvLine(row) == [j \in 1..Len(row) |-> CsvField(row[j])]
ToCsv(df) == <<CsvLine(df.columns)>> \o [i \in 1..Len(df.values) |-> CsvLine(df.values[i])]

(***************************************************************************)
(* JSON documents: a value carries its Python type after json.loads.       *)
(***************************************************************************)
JStr(s)  == [t |-> "str", v |-> s]
JList(l) == [t |-> "list", v |-> l]
JDict(d) == [t |-> "dict", v |-> d]

json_dumps(obj) == [text_of |-> obj]
json_loads(text) == text.text_of

RootSuffix == <<":", "r", "o", "o", "t">>

\* 'AWS' in principal: a key of a dict, a substring of a str
HasAWS(principal) ==
    IF principal.t = "dict" THEN "AWS" \in DOMAIN principal.v
    ELSE IsSubstr(<<"A", "W", "S">>, principal.v)

\* a mutant of StatementArns: the elements of a list are not filtered
StatementArnsListUnfiltered(statement) ==
    IF "Principal" \in DOMAIN statement
    THEN LET principal == statement.Principal
         IN  IF HasAWS(principal)
             THEN LET aws == principal.v.AWS
                  IN  IF aws.t = "str"
                      THEN (IF ~EndsWith(aws.v, RootSuffix) THEN {aws.v} ELSE {})
                      ELSE IF aws.t = "list"
                      THEN {aws.v[i] : i \in 1..Len(aws.v)}
                      ELSE {}
             ELSE {}
    ELSE {}

\* lines 19-30: what one statement adds to account_arns
StatementArns(statement) ==
    IF "Principal" \in DOMAIN statement
    THEN LET principal == statement.Principal
         IN  IF HasAWS(principal)
             THEN LET aws == principal.v.AWS
                  IN  IF aws.t = "str"
                      THEN (IF ~EndsWith(aws.v, RootSuffix) THEN {aws.v} ELSE {})
                      ELSE IF aws.t = "list"
                      THEN {aws.v[i] : i \in {j \in 1..Len(aws.v) :
                                                ~EndsWith(aws.v[j], RootSuffix)}}
                      ELSE {}
             ELSE {}
    ELSE {}

RECURSIVE AccountArns(_)
\* lines 16-30: the set accumulated over key_policy['Statement']
AccountArns(statements) ==
    IF Len(statements) = 0 THEN {}
    ELSE AccountArns(SubSeq(statements, 1, Len(statements) - 1))
            \cup StatementArns(statements[Len(statements)])

\* list(a_set): the elements once each, in an order the caller cannot rely on
ListsOf(S) ==
    {l \in [1..Cardinality(S) -> S] : \A i, j \in DOMAIN l : l[i] = l[j] => i = j}

\* get_aws_account_arns_from_key_metadata: the lists it can return
get_aws_account_arns_from_key_metadata(metadata) ==
    ListsOf(AccountArns(json_loads(metadata.Policy).Statement))

(***************************************************************************)
(* attach_bucket_policy                                                    *)
(***************************************************************************)
BucketArn(bucket_name) == <<"arn:aws:s3:::", bucket_name>>
ObjectsArn(bucket_name) == <<"arn:aws:s3:::", bucket_name, "/*">>

\* a mutant of BucketPolicy: the first value assigned to bucket_policy, the
\* Deny-only document of lines 45-57, is the one sent
DenyOnlyPolicy(bucket_name, account_arns) ==
    [Version |-> "2012-10-17",
     Statement |-> <<
        [Effect |-> "Deny",
         NotPrincipal |-> [AWS |-> account_arns],
         Action |-> "s3:GetObject",
         Resource |-> <<ObjectsArn(bucket_name)>>] >>]

\* lines 58-84: the policy that is serialised and sent
BucketPolicy(bucket_name, account_arns) ==
    [Version |-> "2012-10-17",
     Statement |-> <<
        [Effect |-> "Allow",
         Principal |-> [AWS |-> account_arns],
         Action |-> "s3:*",
         Resource |-> <<BucketArn(bucket_name), ObjectsArn(bucket_name)>>],
        [Effect |-> "Deny",
         NotPrincipal |-> [AWS |-> account_arns],
         Action |-> "s3:GetObject",
         Resource |-> <<BucketArn(bucket_name), ObjectsArn(bucket_name)>>] >>]

(***************************************************************************)
(* get_kms_master_key, lines 119-126, on get_bucket_encryption's response  *)
(***************************************************************************)
RECURSIVE FirstKmsKey(_)
FirstKmsKey(rules) ==
    IF Len(rules) = 0 THEN "None"
    ELSE LET rule == Head(rules)
         IN  IF /\ "ApplyServerSideEncryptionByDefault" \in DOMAIN rule
                /\ "SSEAlgorithm" \in DOMAIN rule.ApplyServerSideEncryptionByDefault
                /\ rule.ApplyServerSideEncryptionByDefault.SSEAlgorithm = "aws:kms"
             THEN (IF "KMSMasterKeyID" \in DOMAIN rule.ApplyServerSideEncryptionByDefault
                   THEN rule.ApplyServerSideEncryptionByDefault.KMSMasterKeyID
                   ELSE "None")
             ELSE FirstKmsKey(Tail(rules))

KmsMasterKey(response) ==
    IF "ServerSideEncryptionConfiguration" \in DOMAIN response
    THEN FirstKmsKey(response.ServerSideEncryptionConfiguration.Rules)
    ELSE "None"

(***************************************************************************)
(* Inputs: the event's object key, the uploaded workbook, the destination  *)
(* bucket's encryption configuration and the KMS key policy.               *)
(***************************************************************************)
xlsx == <<"x", "l", "s", "x">>

Dirs == {<<>>, <<"i", "n", "/">>}
Prefixes == {<<"r", "e", "p", "o", "r", "t">>, <<"s", "a", "l", "e", "s">>, <<"a", ".", "b">>}
Years == {<<"2", "0", "2", "4">>, <<"2", "0", "2", "3">>, <<"0", "9", "9", "9">>,
          <<"0", "0", "0", "0">>}
Months == {<<"0", "3">>, <<"0", "9">>, <<"0", "2">>, <<"1", "3">>}
Days == {<<"1", "5">>, <<"0", "1">>, <<"2", "9">>, <<"3", "1">>}
Rests == {<<"v", "1">>, <<"q">>}
Exts == {xlsx, <<"X", "L", "S", "X">>, <<"t", "x", "t">>}

DatedNames ==
    {p \o <<"_">> \o y \o m \o d \o <<"_">> \o r \o <<".">> \o e :
        p \in Prefixes, y \in Years, m \in Months, d \in Days, r \in Rests, e \in Exts}

OtherNames ==
    { <<"n", "o", "t", "e", "s", ".", "t", "x", "t">>,
      <<"b", "a", "d", "n", "a", "m", "e", ".", "x", "l", "s", "x">>,
      <<"b", "a", "d", "n", "a", "m", "e", ".", "X", "l", "s", "X">>,
      <<"n", "o", "t", "e", "s">>,
      xlsx,
      <<>>,
      <<"r", ".", "x", "l", "s">>,
      <<"r", ".", "x", "l", "s", "x", ".", "t", "x", "t">>,
      <<"r", "_", "2", "0", "2", "4", "0", "3", "1", "5", ".", "x", "l", "s", "x">>,
      <<"r", "_", "2", "0", "2", "4", "1", "1", "_", "v", ".", "x", "l", "s", "x">>,
      <<"r", "_", "2", "0", "2", "4", "1", "1", "5", "_", "v", ".", "x", "l", "s", "x">>,
      <<"r", "_", "2", "0", "2", "4", "1", " ", "5", "_", "v", ".", "x", "l", "s", "x">>,
      <<"r", "_", "2", "0", "2", "4", "0", "3", "1", "5", "0", "_", "v", ".", "x", "l", "s", "x">>,
      <<"r", "_", "2", "0", "2", "4", "0", "3", "1", "5", "_", "v", ".", "1", ".", "X", "l", "s", "x">>,
      <<"s", "_", "2", "0", "2", "3", "0", "9", "0", "1", "_", "q", ".", "x", "l", "s", "x">>,
      <<"r", "_", "d", "a", "t", "e", "_", "v", ".", "x", "l", "s", "x">>,
      <<"r", "_", "_", "v", ".", "x", "l", "s", "x">>,
      <<"a", "_", "b", "_", "2", "0", "2", "4", "0", "3", "1", "5", "_", "v", ".", "x", "l", "s", "x">>,
      <<"_", "2", "0", "2", "4", "0", "3", "1", "5", "_", ".", "x", "l", "s", "x">>,
      <<"r", "_", "2", "0", "2", "4", "0", "3", "1", "5", "_", "v", ".", "t", "x", "t">> }

Keys == DatedNames \cup {d \o n : d \in Dirs, n \in OtherNames}

DefaultKey ==
    <<"i", "n", "/", "s", "a", "l", "e", "s", "_", "2", "0", "2", "3", "0", "9", "0", "1",
      "_", "q", ".", "x", "l", "s", "x">>

SourceBucket == "uploads"
TargetBucket == "input-data-bucket-eu-west-2"
CrawlerName == "s3_input_crawler"

Cells == {NaN, "a"}

AllGrids ==
    {<<>>} \cup UNION {[1..r -> [1..c -> Cells]] : r \in 1..MaxRows, c \in 1..MaxCols}

Workbook(grid) == [valid |-> TRUE, grid |-> grid]
CorruptWorkbook == [valid |-> FALSE, grid |-> <<>>]
NoWorkbook == [valid |-> FALSE, grid |-> <<"unset">>]

\* two blank rows and a blank column around a header row and two data rows
SalesGrid ==
    << <<NaN, NaN, NaN, NaN>>,
       <<NaN, "region", "units", "price">>,
       <<NaN, NaN, NaN, NaN>>,
       <<NaN, "north", "3", NaN>>,
       <<NaN, "south", NaN, "7">> >>

SampleWorkbooks ==
    { Workbook(SalesGrid),
      Workbook(<< <<"h">> >>),
      Workbook(<<>>),
      Workbook(<< <<NaN, NaN>>, <<NaN, NaN>> >>),
      CorruptWorkbook }

AllWorkbooks == {Workbook(g) : g \in AllGrids} \cup SampleWorkbooks

KeyId1 == "arn:aws:kms:eu-west-2:111:key/k1"
KeyId2 == "arn:aws:kms:eu-west-2:111:key/k2"

EncryptionResponses ==
    { [ResponseMetadata |-> "200"],
      [ServerSideEncryptionConfiguration |-> [Rules |-> <<>>]],
      [ServerSideEncryptionConfiguration |-> [Rules |-> << [BucketKeyEnabled |-> FALSE] >>]],
      [ServerSideEncryptionConfiguration |-> [Rules |->
          << [ApplyServerSideEncryptionByDefault |-> [SSEAlgorithm |-> "AES256"]] >>]],
      [ServerSideEncryptionConfiguration |-> [Rules |->
          << [ApplyServerSideEncryptionByDefault |->
                [SSEAlgorithm |-> "aws:kms", KMSMasterKeyID |-> KeyId1]] >>]],
      [ServerSideEncryptionConfiguration |-> [Rules |->
          << [ApplyServerSideEncryptionByDefault |-> [SSEAlgorithm |-> "aws:kms"]] >>]],
      [ServerSideEncryptionConfiguration |-> [Rules |->
          << [ApplyServerSideEncryptionByDefault |-> [SSEAlgorithm |-> "AES256"]],
             [ApplyServerSideEncryptionByDefault |->
                [SSEAlgorithm |-> "aws:kms", KMSMasterKeyID |-> KeyId2]] >>]] }

Root111 == <<"arn:aws:iam::111">> \o RootSuffix
User222 == <<"arn:aws:iam::222", ":", "u", "s", "e", "r", "/", "x">>
UserRoot333 == <<"arn:aws:iam::333", ":", "u", "s", "e", "r", "/", "r", "o", "o", "t">>
Arns == {Root111, User222, UserRoot333}

ArnLists == UNION {[1..n -> Arns] : n \in 0..MaxArnList}

Statements ==
    { [Effect |-> "Allow"],
      [Effect |-> "Allow", Principal |-> JStr(<<"*">>)],
      [Effect |-> "Allow", Principal |-> JDict([Service |-> JStr(<<"s3.amazonaws.com">>)])] }
    \cup {[Effect |-> "Allow", Principal |-> JDict([AWS |-> JStr(a)])] : a \in Arns}
    \cup {[Effect |-> "Allow", Principal |-> JDict([AWS |-> JList(l)])] : l \in ArnLists}

KeyPolicyResponse(statements) ==
    [Policy |-> json_dumps([Version |-> "2012-10-17", Statement |-> statements])]

AllKeyPolicies ==
    {KeyPolicyResponse(ss) : ss \in UNION {[1..n -> Statements] : n \in 0..MaxStmts}}

SampleKeyPolicies ==
    { KeyPolicyResponse(<< [Effect |-> "Allow",
                            Principal |-> JDict([AWS |-> JList(<<Root111, User222>>)])] >>),
      KeyPolicyResponse(<< [Effect |-> "Allow", Principal |-> JDict([AWS |-> JStr(Root111)])] >>),
      KeyPolicyResponse(<< [Effect |-> "Allow", Principal |-> JDict([AWS |-> JStr(User222)])],
                           [Effect |-> "Allow",
                            Principal |-> JDict([AWS |-> JList(<<UserRoot333, User222>>)])] >>) }

NoKeyMetadata == KeyPolicyResponse(<< [Effect |-> "unset"] >>)

BucketNames == {TargetBucket, "b", "archive-bucket"}

(***************************************************************************)
(* lambda_handler                                                          *)
(***************************************************************************)
NoResult == [kind |-> "none", statusCode |-> 0, error |-> "None",
             body |-> [template |-> "None"]]
Raised(error) == [kind |-> "raise", statusCode |-> 0, error |-> error,
                  body |-> [template |-> "None"]]
Returned(code, body) == [kind |-> "return", statusCode |-> code, error |-> "None",
                         body |-> body]

Call(op, ok, args) == [op |-> op, ok |-> ok, args |-> args]

Last(seq) == seq[Len(seq)]

\* lines 130-149 and the else branch, lines 193-197
ParseEvent ==
    /\ pc = "start"
    /\ LET name == Last(Split(source_key, "/"))
           ext  == Last(Split(name, "."))
           date == ParseDate(name)
       IN  /\ file_name' = name
           /\ file_prefix' = Split(name, ".")[1]
           /\ file_extension' = ext
           /\ IF Lower(ext) = xlsx
              THEN IF date.ok
                   THEN /\ year' = date.year
                        /\ month' = date.month
                        /\ day' = date.day
                        /\ pc' = "get_object"
                        /\ result' = result
                   ELSE /\ pc' = "done"
                        /\ result' = Raised(date.error)
                        /\ UNCHANGED <<year, month, day>>
              ELSE /\ pc' = "done"
                   /\ result' = Returned(400,
                          [template |-> "Error: {file_name} is not an Excel file",
                           file_name |-> name])
                   /\ UNCHANGED <<year, month, day>>
    /\ UNCHANGED <<source_key, excel_data, excel_df, csv_data, target_bucket, target_key,
                   key_arn, key_metadata, aws_account_arns, calls, s3_objects,
                   s3_policy, crawler_started>>

\* lines 152-154
GetObject ==
    /\ pc = "get_object"
    /\ \E ok \in BOOLEAN :
         /\ calls' = Append(calls, Call("get_object", ok,
                                        [Bucket |-> SourceBucket, Key |-> source_key]))
         /\ IF ok
            THEN /\ \E wb \in SampleWorkbooks : excel_data' = wb
                 /\ pc' = "convert"
                 /\ result' = result
            ELSE /\ pc' = "done"
                 /\ result' = Raised("ClientError")
                 /\ excel_data' = excel_data
    /\ UNCHANGED <<source_key, file_name, file_prefix, file_extension, year, month, day,
                   excel_df, csv_data, target_bucket, target_key, key_arn, key_metadata,
                   aws_account_arns, s3_objects, s3_policy, crawler_started>>

\* lines 157-163
Convert ==
    /\ pc = "convert"
    /\ LET df == Cleanup(excel_data.grid)
       IN  IF ~excel_data.valid
           THEN /\ pc' = "done"
                /\ result' = Raised("BadZipFile")
                /\ UNCHANGED <<excel_df, csv_data>>
           ELSE IF ~df.ok
           THEN /\ pc' = "done"
                /\ result' = Raised("IndexError")
                /\ UNCHANGED <<excel_df, csv_data>>
           ELSE /\ excel_df' = [columns |-> df.columns, values |-> df.values]
                /\ csv_data' = ToCsv(df)
                /\ pc' = "put_object"
                /\ result' = result
    /\ UNCHANGED <<source_key, file_name, file_prefix, file_extension, year, month, day,
                   excel_data, target_bucket, target_key, key_arn, key_metadata,
                   aws_account_arns, calls, s3_objects, s3_policy, crawler_started>>

\* lines 166-174
PutObject ==
    /\ pc = "put_object"
    /\ LET key == TargetKey(year, month, day, file_prefix)
       IN  /\ target_bucket' = TargetBucket
           /\ target_key' = key
           /\ \E ok \in BOOLEAN :
                /\ calls' = Append(calls, Call("put_object", ok,
                               [Bucket |-> TargetBucket, Key |-> key, Body |-> csv_data]))
                /\ IF ok
                   THEN /\ s3_objects' =
                              {o \in s3_objects : ~(o.Bucket = TargetBucket /\ o.Key = key)}
                              \cup {[Bucket |-> TargetBucket, Key |-> key, Body |-> csv_data]}
                        /\ pc' = "get_kms_master_key"
                        /\ result' = result
                   ELSE /\ pc' = "done"
                        /\ result' = Raised("ClientError")
                        /\ s3_objects' = s3_objects
    /\ UNCHANGED <<source_key, file_name, file_prefix, file_extension, year, month, day,
                   excel_data, excel_df, csv_data, key_arn, key_metadata,
                   aws_account_arns, s3_policy, crawler_started>>

\* line 177 and get_kms_master_key, lines 102-126
GetKmsMasterKey ==
    /\ pc = "get_kms_master_key"
    /\ \E ok \in BOOLEAN :
         IF ok
         THEN \E response \in EncryptionResponses :
                /\ calls' = Append(calls, [op |-> "get_bucket_encryption", ok |-> TRUE,
                                           args |-> [Bucket |-> target_bucket],
                                           response |-> response])
                /\ key_arn' = KmsMasterKey(response)
                /\ pc' = "get_key_policy"
                /\ result' = result
         ELSE /\ calls' = Append(calls, Call("get_bucket_encryption", FALSE,
                                             [Bucket |-> target_bucket]))
              /\ pc' = "done"
              /\ result' = Raised("ClientError")
              /\ key_arn' = key_arn
    /\ UNCHANGED <<source_key, file_name, file_prefix, file_extension, year, month, day,
                   excel_data, excel_df, csv_data, target_bucket, target_key,
                   key_metadata, aws_account_arns, s3_objects, s3_policy,
                   crawler_started>>

\* line 178 and get_kms_key_metadata, lines 88-99; the call is made whatever
\* key_arn is, and boto3 rejects KeyId=None with ParamValidationError
GetKmsKeyMetadata ==
    /\ pc = "get_key_policy"
    /\ IF key_arn = "None"
       THEN /\ calls' = Append(calls, Call("get_key_policy", FALSE,
                                           [KeyId |-> key_arn, PolicyName |-> "default"]))
            /\ pc' = "done"
            /\ result' = Raised("ParamValidationError")
            /\ key_metadata' = key_metadata
       ELSE \E ok \in BOOLEAN :
              /\ calls' = Append(calls, Call("get_key_policy", ok,
                                             [KeyId |-> key_arn, PolicyName |-> "default"]))
              /\ IF ok
                 THEN /\ \E response \in SampleKeyPolicies : key_metadata' = response
                      /\ pc' = "extract"
                      /\ result' = result
                 ELSE /\ pc' = "done"
                      /\ result' = Raised("ClientError")
                      /\ key_metadata' = key_metadata
    /\ UNCHANGED <<source_key, file_name, file_prefix, file_extension, year, month, day,
                   excel_data, excel_df, csv_data, target_bucket, target_key, key_arn,
                   aws_account_arns, s3_objects, s3_policy, crawler_started>>

\* line 179 and get_aws_account_arns_from_key_metadata, lines 6-31
ExtractArns ==
    /\ pc = "extract"
    /\ \E arns \in get_aws_account_arns_from_key_metadata(key_metadata) :
         aws_account_arns' = arns
    /\ pc' = "attach"
    /\ UNCHANGED <<source_key, file_name, file_prefix, file_extension, year, month, day,
                   excel_data, excel_df, csv_data, target_bucket, target_key, key_arn,
                   key_metadata, calls, s3_objects, s3_policy, crawler_started, result>>

\* a mutant of AttachBucketPolicy: a failure of put_bucket_policy is swallowed
AttachBucketPolicySwallow ==
    /\ pc = "attach"
    /\ LET policy == json_dumps(BucketPolicy(target_bucket, aws_account_arns))
       IN  \E ok \in BOOLEAN :
             /\ calls' = Append(calls, Call("put_bucket_policy", ok,
                                    [Bucket |-> target_bucket, Policy |-> policy]))
             /\ s3_policy' = IF ok
                             THEN {q \in s3_policy : q.Bucket # target_bucket}
                                   \cup {[Bucket |-> target_bucket, Policy |-> policy]}
                             ELSE s3_policy
             /\ pc' = "start_crawler"
             /\ result' = result
    /\ UNCHANGED <<source_key, file_name, file_prefix, file_extension, year, month, day,
                   excel_data, excel_df, csv_data, target_bucket, target_key, key_arn,
                   key_metadata, aws_account_arns, s3_objects, crawler_started>>

\* line 181 and attach_bucket_policy, lines 33-86
AttachBucketPolicy ==
    /\ pc = "attach"
    /\ LET policy == json_dumps(BucketPolicy(target_bucket, aws_account_arns))
       IN  \E ok \in BOOLEAN :
             /\ calls' = Append(calls, Call("put_bucket_policy", ok,
                                    [Bucket |-> target_bucket, Policy |-> policy]))
             /\ IF ok
                THEN /\ s3_policy' = {q \in s3_policy : q.Bucket # target_bucket}
                                      \cup {[Bucket |-> target_bucket, Policy |-> policy]}
                     /\ pc' = "start_crawler"
                     /\ result' = result
                ELSE /\ pc' = "done"
                     /\ result' = Raised("ClientError")
                     /\ s3_policy' = s3_policy
    /\ UNCHANGED <<source_key, file_name, file_prefix, file_extension, year, month, day,
                   excel_data, excel_df, csv_data, target_bucket, target_key, key_arn,
                   key_metadata, aws_account_arns, s3_objects, crawler_started>>

\* lines 185-192
StartCrawler ==
    /\ pc = "start_crawler"
    /\ \E ok \in BOOLEAN :
         /\ calls' = Append(calls, Call("start_crawler", ok, [Name |-> CrawlerName]))
         /\ IF ok
            THEN /\ crawler_started' = crawler_started \cup {CrawlerName}
                 /\ result' = Returned(200,
                        [template |->
                           "File {file_name} converted and stored as {target_key} in {target_bucket}",
                         file_name |-> file_name,
                         target_key |-> target_key,
                         target_bucket |-> target_bucket])
            ELSE /\ crawler_started' = crawler_started
                 /\ result' = Raised("ClientError")
    /\ pc' = "done"
    /\ UNCHANGED <<source_key, file_name, file_prefix, file_extension, year, month, day,
                   excel_data, excel_df, csv_data, target_bucket, target_key, key_arn,
                   key_metadata, aws_account_arns, s3_objects, s3_policy>>

\* the state lambda_handler starts in, but for the event
Fresh ==
    /\ file_name = <<>> /\ file_prefix = <<>> /\ file_extension = <<>>
    /\ year = 0 /\ month = 0 /\ day = 0
    /\ excel_data = NoWorkbook
    /\ excel_df = [columns |-> <<>>, values |-> <<>>]
    /\ csv_data = <<>>
    /\ target_bucket = "None" /\ target_key = <<>>
    /\ key_arn = "unset"
    /\ key_metadata = NoKeyMetadata
    /\ aws_account_arns = <<>>
    /\ calls = <<>>
    /\ s3_objects = {} /\ s3_policy = {} /\ crawler_started = {}
    /\ result = NoResult

Init ==
    /\ pc = "start"
    /\ source_key \in Keys
    /\ Fresh

Next ==
    \/ ParseEvent
    \/ GetObject
    \/ Convert
    \/ PutObject
    \/ GetKmsMasterKey
    \/ GetKmsKeyMetadata
    \/ ExtractArns
    \/ AttachBucketPolicy
    \/ StartCrawler

Spec == Init /\ [][Next]_vars

(***************************************************************************)
(* The functions on their own: the handler has run, with the default       *)
(* inputs, up to the call, and the function's input ranges over the        *)
(* enumerated values.                                                      *)
(***************************************************************************)
DefaultName == Last(Split(DefaultKey, "/"))
DefaultDate == ParseDate(DefaultName)
DefaultPrefix == Split(DefaultName, ".")[1]
DefaultFrame == Cleanup(SalesGrid)
DefaultTargetKey ==
    TargetKey(DefaultDate.year, DefaultDate.month, DefaultDate.day, DefaultPrefix)
DefaultKeyMetadata ==
    KeyPolicyResponse(<< [Effect |-> "Allow",
                          Principal |-> JDict([AWS |-> JList(<<Root111, User222>>)])] >>)

GetObjectCall ==
    Call("get_object", TRUE, [Bucket |-> SourceBucket, Key |-> DefaultKey])
PutObjectCall(bucket) ==
    Call("put_object", TRUE,
         [Bucket |-> bucket, Key |-> DefaultTargetKey, Body |-> ToCsv(DefaultFrame)])
GetBucketEncryptionCall(bucket) ==
    [op |-> "get_bucket_encryption", ok |-> TRUE, args |-> [Bucket |-> bucket],
     response |-> [ServerSideEncryptionConfiguration |-> [Rules |->
          << [ApplyServerSideEncryptionByDefault |->
                [SSEAlgorithm |-> "aws:kms", KMSMasterKeyID |-> KeyId1]] >>]]]
GetKeyPolicyCall ==
    Call("get_key_policy", TRUE, [KeyId |-> KeyId1, PolicyName |-> "default"])

\* lines 136-149 have run on DefaultKey
Parsed ==
    /\ source_key = DefaultKey
    /\ file_name = DefaultName
    /\ file_prefix = DefaultPrefix
    /\ file_extension = Last(Split(DefaultName, "."))
    /\ year = DefaultDate.year /\ month = DefaultDate.month /\ day = DefaultDate.day
    /\ result = NoResult
    /\ crawler_started = {}
    /\ s3_policy = {}

\* lines 152-178 have run, the upload going to bucket
Uploaded(bucket) ==
    /\ Parsed
    /\ excel_data = Workbook(SalesGrid)
    /\ excel_df = [columns |-> DefaultFrame.columns, values |-> DefaultFrame.values]
    /\ csv_data = ToCsv(DefaultFrame)
    /\ target_bucket = bucket
    /\ target_key = DefaultTargetKey
    /\ key_arn = KeyId1
    /\ calls = <<GetObjectCall, PutObjectCall(bucket), GetBucketEncryptionCall(bucket),
                 GetKeyPolicyCall>>
    /\ s3_objects = {[Bucket |-> bucket, Key |-> DefaultTargetKey,
                      Body |-> ToCsv(DefaultFrame)]}

\* the cleanup, lines 157-163, on every workbook
InitClean ==
    /\ pc = "convert"
    /\ Parsed
    /\ excel_data \in AllWorkbooks
    /\ excel_df = [columns |-> <<>>, values |-> <<>>]
    /\ csv_data = <<>>
    /\ target_bucket = "None" /\ target_key = <<>>
    /\ key_arn = "unset"
    /\ key_metadata = NoKeyMetadata
    /\ aws_account_arns = <<>>
    /\ calls = <<GetObjectCall>>
    /\ s3_objects = {}

NextClean == Convert

SpecClean == InitClean /\ [][NextClean]_vars

\* get_aws_account_arns_from_key_metadata on every key policy
InitArns ==
    /\ pc = "extract"
    /\ Uploaded(TargetBucket)
    /\ key_metadata \in AllKeyPolicies
    /\ aws_account_arns = <<>>

NextArns == ExtractArns

SpecArns == InitArns /\ [][NextArns]_vars

\* attach_bucket_policy on every bucket name and every list of accounts
InitAttach ==
    /\ pc = "attach"
    /\ \E bucket \in BucketNames : Uploaded(bucket)
    /\ key_metadata = DefaultKeyMetadata
    /\ aws_account_arns \in ArnLists

NextAttach == AttachBucketPolicy

SpecAttach == InitAttach /\ [][NextAttach]_vars

(***************************************************************************)
(* Vocabulary of the properties, stated without the handler's operators    *)
(***************************************************************************)
\* the part of s after its last c (the whole of s without a c)
AfterLast(s, c) ==
    LET P == {i \in 1..Len(s) : s[i] = c}
    IN  IF P = {} THEN s
        ELSE SubSeq(s, (CHOOSE p \in P : \A q \in P : q <= p) + 1, Len(s))

\* the part of s before its first c (the whole of s without a c)
BeforeFirst(s, c) ==
    LET P == {i \in 1..Len(s) : s[i] = c}
    IN  IF P = {} THEN s
        ELSE SubSeq(s, 1, (CHOOSE p \in P : \A q \in P : p <= q) - 1)

EventFileName == AfterLast(source_key, "/")
EventExtension == AfterLast(EventFileName, ".")

IsXlsxAnyCase(ext) ==
    /\ Len(ext) = 4
    /\ ext[1] \in {"x", "X"} /\ ext[2] \in {"l", "L"}
    /\ ext[3] \in {"s", "S"} /\ ext[4] \in {"x", "X"}

WriteOps == {"put_object", "put_bucket_policy", "start_crawler"}

Called(op) == \E i \in 1..Len(calls) : calls[i].op = op
Succeeded(op) == \E i \in 1..Len(calls) : calls[i].op = op /\ calls[i].ok
Failed(op) == \E i \in 1..Len(calls) : calls[i].op = op /\ ~calls[i].ok

NoWrite ==
    /\ \A i \in 1..Len(calls) : calls[i].op \notin WriteOps
    /\ s3_objects = {} /\ s3_policy = {} /\ crawler_started = {}

\* C1: a key whose file name does not end in the xlsx extension (in any case)
\* is answered with statusCode 400, nothing is raised and nothing is written;
\* a file name with the extension in any case is never answered with 400.
C1_NonExcelRejected ==
    /\ ~IsXlsxAnyCase(EventExtension) =>
          /\ result.kind # "raise"
          /\ pc \in {"start", "done"}
          /\ pc = "done" => (result.kind = "return" /\ result.statusCode = 400)
          /\ NoWrite
    /\ IsXlsxAnyCase(EventExtension) => result.statusCode # 400

C1_Witness ==
    /\ pc = "done"
    /\ file_name = <<"n", "o", "t", "e", "s", ".", "t", "x", "t">>
    /\ result.kind = "return" /\ result.statusCode = 400
    /\ calls = <<>>

\* <prefix>_<YYYYMMDD>_<rest>.xlsx with a valid calendar date
IsDatedXlsx(name) ==
    LET segs == Split(name, "_")
    IN  /\ Len(segs) >= 3
        /\ EndsWith(name, <<".">> \o xlsx)
        /\ Len(segs[2]) = 8
        /\ \A i \in 1..8 : segs[2][i] \in Digits
        /\ LET y == IntOf(SubSeq(segs[2], 1, 4))
               m == IntOf(SubSeq(segs[2], 5, 6))
               d == IntOf(SubSeq(segs[2], 7, 8))
           IN  y >= 1 /\ m \in 1..12 /\ d >= 1 /\ d <= DaysInMonth(y, m)

RECURSIVE StripZeros(_)
StripZeros(s) == IF Len(s) > 1 /\ s[1] = "0" THEN StripZeros(Tail(s)) ELSE s

PartitionedKey(yyyy, mm, dd, stem) ==
    <<"y", "e", "a", "r", "=">> \o yyyy
        \o <<"/", "m", "o", "n", "t", "h", "=">> \o mm
        \o <<"/", "d", "a", "y", "=">> \o dd
        \o <<"/">> \o stem \o <<".", "c", "s", "v">>

\* the key as the claim words it: the date token's digits, then the part of
\* the name before the date token
ClaimedKey(name) ==
    LET segs == Split(name, "_")
    IN  PartitionedKey(SubSeq(segs[2], 1, 4), SubSeq(segs[2], 5, 6),
                       SubSeq(segs[2], 7, 8), segs[1])

\* the key with the year as a number and the name up to its first '.'
StemKey(name) ==
    LET segs == Split(name, "_")
    IN  PartitionedKey(StripZeros(SubSeq(segs[2], 1, 4)), SubSeq(segs[2], 5, 6),
                       SubSeq(segs[2], 7, 8), BeforeFirst(name, "."))

KeyIs(expected) ==
    /\ \A i \in 1..Len(calls) :
         calls[i].op = "put_object" => calls[i].args.Key = expected
    /\ result.statusCode = 200 =>
         /\ result.body.target_key = expected
         /\ Succeeded("put_object")
         /\ \E o \in s3_objects : o.Key = expected

\* C2 as stated: the key of put_object and of the 200 response is
\* year=<YYYY>/month=<MM>/day=<DD>/<prefix>.csv, <prefix> being the part of the
\* file name before the date token.
C2_KeyEndsWithPrefix == IsDatedXlsx(EventFileName) => KeyIs(ClaimedKey(EventFileName))

\* C2 amended: the key of put_object and of the 200 response is
\* year=<Y>/month=<MM>/day=<DD>/<stem>.csv, <Y> being the year without leading
\* zeros and <stem> the file name up to its first '.' (date token included).
C2_KeyEndsWithStem == IsDatedXlsx(EventFileName) => KeyIs(StemKey(EventFileName))

C2_Witness ==
    /\ result.statusCode = 200
    /\ file_name = <<"r", "e", "p", "o", "r", "t", "_", "2", "0", "2", "4", "0", "3", "1", "5",
                     "_", "v", "1", ".", "x", "l", "s", "x">>
    /\ result.body.target_key =
         <<"y", "e", "a", "r", "=", "2", "0", "2", "4", "/", "m", "o", "n", "t", "h", "=",
           "0", "3", "/", "d", "a", "y", "=", "1", "5", "/", "r", "e", "p", "o", "r", "t",
           "_", "2", "0", "2", "4", "0", "3", "1", "5", "_", "v", "1", ".", "c", "s", "v">>
    /\ \E i \in 1..Len(calls) :
         calls[i].op = "put_object" /\ calls[i].args.Key = result.body.target_key

\* C3 as stated: when get_kms_master_key returns None, get_key_policy and
\* put_bucket_policy are not called and the invocation ends with statusCode 200.
C3_NoKeySkipsPolicy ==
    (pc = "done" /\ key_arn = "None" /\ ~Failed("start_crawler")) =>
        /\ result.statusCode = 200
        /\ ~Called("get_key_policy")
        /\ ~Called("put_bucket_policy")

\* C4 as stated: once put_object and put_bucket_policy have succeeded, the
\* invocation returns the 200 response naming the destination key, whether or
\* not start_crawler succeeds.
C4_CrawlerFailureNotFatal ==
    (pc = "done" /\ Succeeded("put_object") /\ Succeeded("put_bucket_policy")) =>
        /\ result.kind = "return"
        /\ result.statusCode = 200
        /\ result.body.target_key = target_key

EndsWithRoot(a) ==
    /\ Len(a) >= 5
    /\ a[Len(a) - 4] = ":" /\ a[Len(a) - 3] = "r" /\ a[Len(a) - 2] = "o"
    /\ a[Len(a) - 1] = "o" /\ a[Len(a)] = "t"

\* the identifiers in some statement's Principal.AWS, a string or a list
Mentioned(statements) ==
    {a \in Arns :
        \E k \in 1..Len(statements) :
            /\ "Principal" \in DOMAIN statements[k]
            /\ statements[k].Principal.t = "dict"
            /\ "AWS" \in DOMAIN statements[k].Principal.v
            /\ LET aws == statements[k].Principal.v.AWS
               IN  \/ (aws.t = "str" /\ aws.v = a)
                   \/ (aws.t = "list" /\ \E j \in 1..Len(aws.v) : aws.v[j] = a)}

\* C5: get_aws_account_arns_from_key_metadata returns, each once, exactly the
\* identifiers of the statements' Principal.AWS fields that do not end with
\* ':root'; statements without a Principal or without an AWS field add nothing.
C5_PrincipalsExtracted ==
    pc = "attach" =>
        LET expected == {a \in Mentioned(key_metadata.Policy.text_of.Statement) :
                           ~EndsWithRoot(a)}
        IN  /\ {aws_account_arns[i] : i \in 1..Len(aws_account_arns)} = expected
            /\ Len(aws_account_arns) = Cardinality(expected)
            /\ \A i \in 1..Len(aws_account_arns) : ~EndsWithRoot(aws_account_arns[i])

C5_Witness ==
    /\ pc = "attach"
    /\ key_metadata = DefaultKeyMetadata
    /\ aws_account_arns = <<User222>>

\* C6: the document sent to put_bucket_policy has exactly two statements, Allow
\* s3:* with Principal.AWS = accounts, then Deny s3:GetObject with
\* NotPrincipal.AWS = accounts, both on the bucket and the bucket's objects,
\* for an empty account list too.
C6_TwoStatementPolicy ==
    \A i \in 1..Len(calls) :
        calls[i].op = "put_bucket_policy" =>
            LET doc == calls[i].args.Policy.text_of
                res == << <<"arn:aws:s3:::", calls[i].args.Bucket>>,
                          <<"arn:aws:s3:::", calls[i].args.Bucket, "/*">> >>
            IN  /\ calls[i].args.Bucket = target_bucket
                /\ Len(doc.Statement) = 2
                /\ DOMAIN doc.Statement[1] = {"Effect", "Principal", "Action", "Resource"}
                /\ doc.Statement[1].Effect = "Allow"
                /\ doc.Statement[1].Principal.AWS = aws_account_arns
                /\ doc.Statement[1].Action = "s3:*"
                /\ doc.Statement[1].Resource = res
                /\ DOMAIN doc.Statement[2] = {"Effect", "NotPrincipal", "Action", "Resource"}
                /\ doc.Statement[2].Effect = "Deny"
                /\ doc.Statement[2].NotPrincipal.AWS = aws_account_arns
                /\ doc.Statement[2].Action = "s3:GetObject"
                /\ doc.Statement[2].Resource = res

C6_Witness ==
    /\ aws_account_arns = <<>>
    /\ target_bucket = "b"
    /\ \E i \in 1..Len(calls) :
         /\ calls[i].op = "put_bucket_policy"
         /\ calls[i].args.Bucket = "b"
         /\ Len(calls[i].args.Policy.text_of.Statement) = 2
         /\ calls[i].args.Policy.text_of.Statement[2].NotPrincipal.AWS = <<>>

HasValue(grid) ==
    \E i \in 1..Len(grid) : \E j \in 1..Len(grid[i]) : grid[i][j] # NaN

\* C8: for a grid with a non-empty cell the cleanup yields a table in which no
\* row is all empty, no column (header included) is all empty, and every data
\* row is as long as the header.
C8_CleanedTable ==
    (pc # "convert" /\ excel_data.valid /\ HasValue(excel_data.grid)) =>
        LET rows == <<excel_df.columns>> \o excel_df.values
        IN  /\ pc = "put_object"
            /\ \A i \in 1..Len(rows) : \E j \in 1..Len(rows[i]) : rows[i][j] # NaN
            /\ \A j \in 1..Len(excel_df.columns) :
                 \E i \in 1..Len(rows) : rows[i][j] # NaN
            /\ \A i \in 1..Len(excel_df.values) :
                 Len(excel_df.values[i]) = Len(excel_df.columns)

C8_Witness ==
    /\ pc = "put_object"
    /\ excel_data.grid = << <<NaN, NaN, NaN>>, <<NaN, "a", "a">>, <<NaN, "a", NaN>> >>
    /\ excel_df = [columns |-> <<"a", "a">>, values |-> << <<"a", NaN>> >>]

Rank(op) == CASE op = "put_object" -> 1
              [] op = "put_bucket_policy" -> 2
              [] op = "start_crawler" -> 3

\* C9: put_object, put_bucket_policy and start_crawler are called at most once
\* each and in that order; a failed put_object or put_bucket_policy is the last
\* call of the invocation, which raises; after a failed put_bucket_policy the
\* uploaded object is still in the destination bucket.
C9_WritesFailStop ==
    LET writes == SelectSeq(calls, LAMBDA c : c.op \in WriteOps)
    IN  /\ \A i, j \in 1..Len(writes) :
             i < j => Rank(writes[i].op) < Rank(writes[j].op)
        /\ \A i \in 1..Len(calls) :
             (calls[i].op \in {"put_object", "put_bucket_policy"} /\ ~calls[i].ok) =>
                 /\ i = Len(calls)
                 /\ pc = "done"
                 /\ result.kind = "raise"
        /\ Failed("put_object") => s3_policy = {} /\ crawler_started = {}
        /\ Failed("put_bucket_policy") =>
             /\ crawler_started = {}
             /\ [Bucket |-> target_bucket, Key |-> target_key, Body |-> csv_data]
                  \in s3_objects

C9_Witness ==
    /\ pc = "done"
    /\ Succeeded("put_object")
    /\ Failed("put_bucket_policy")
    /\ result.kind = "raise"
    /\ \E o \in s3_objects : o.Key = target_key

\* C10 as stated: when no row is left after the blank rows and columns are
\* dropped, the cleanup does not fail and the invocation goes on to the upload.
C10_EmptySheetContinues ==
    (/\ pc \notin {"start", "get_object", "convert"}
     /\ excel_data.valid
     /\ ~HasValue(excel_data.grid)) =>
        /\ result.error # "IndexError"
        /\ (pc = "put_object" \/ Called("put_object"))

====
